---------------------------- MODULE Spec2Model ----------------------------
(***************************************************************************)
(* A model of crossplaycheater: the board container (board.py) and the     *)
(* screenshot analyzer (board_analyzer.py).                                *)
(*                                                                         *)
(* Characters are their code points; a string is a sequence of code        *)
(* points.  None is modelled by 0 (no code point and no handle is 0).      *)
(* Confidences are in hundredths (0.5 is 50).                              *)
(***************************************************************************)
EXTENDS Integers, Sequences, FiniteSets, TLC

VARIABLES
    \* ---- the process: BoardAnalyzer instances and the analyze call in flight
    analyzers,      \* the BoardAnalyzer instances constructed so far
    ocr_reader,     \* self._ocr_reader of each instance: None or an engine handle
    engines,        \* how many easyocr.Reader objects the process has constructed
    calls,          \* how many analyze calls were started
    pc,             \* position of the call in flight (or of a pure-function run)
    self,           \* the instance the call in flight runs on
    image,          \* the file at image_path of the call in flight
    board_image,    \* shape of the board region: [height, width, rectified]
    cells,          \* the slices built by _extract_cells
    row, col,       \* loop position of analyze's classification loop
    board,          \* the ScrabbleBoard being filled
    classified,     \* how many _recognize_cell calls of this call have returned
    steps,          \* which stages of the call in flight have run
    outcome,        \* how the last call ended: a board returned or the exception
    \* ---- inputs and outputs of the pure functions
    rows,           \* from_strings input
    parsed,         \* from_strings(rows)
    printed,        \* to_strings(parsed)
    reparsed,       \* from_strings(printed)
    corners,        \* _order_corners input
    ordered,        \* _order_corners output
    results,        \* what readtext returned for a cell
    letter,         \* what _recognize_cell returned for it
    cell_image,     \* _is_cell_empty input: the grayscale of a cell image
    is_empty        \* what _is_cell_empty returned for it

procVars == <<analyzers, ocr_reader, engines, calls, self, image, row, col,
              board, classified, steps, outcome>>
segVars  == <<board_image, cells>>
boardVars == <<rows, parsed, printed, reparsed>>
cornerVars == <<corners, ordered>>
recogVars == <<results, letter>>
emptyVars == <<cell_image, is_empty>>
vars == <<pc, procVars, segVars, boardVars, cornerVars, recogVars, emptyVars>>

None == 0

\* board.py: BOARD_SIZE = 15
BOARD_SIZE == 15
Idx == 0 .. (BOARD_SIZE - 1)

Max(a, b) == IF a >= b THEN a ELSE b
Min(a, b) == IF a <= b THEN a ELSE b

-----------------------------------------------------------------------------
(* Characters and Python's str methods on them.                            *)

DOT == 46
UpperLetters == 65 .. 90
LowerLetters == 97 .. 122
Whitespace == {9, 10, 11, 12, 13, 32}

\* str.upper() / str.lower() / str.islower() / str.isalpha() of one character
upper(ch) == IF ch \in LowerLetters THEN ch - 32 ELSE ch
lower(ch) == IF ch \in UpperLetters THEN ch + 32 ELSE ch
islower(ch) == ch \in LowerLetters
isalpha(ch) == ch \in UpperLetters \cup LowerLetters

\* str.upper() of a string
upper_str(s) == [i \in 1 .. Len(s) |-> upper(s[i])]

\* str.strip(): drop leading and trailing whitespace
RECURSIVE lstrip(_)
lstrip(s) == IF s # <<>> /\ Head(s) \in Whitespace THEN lstrip(Tail(s)) ELSE s
RECURSIVE rstrip(_)
rstrip(s) ==
    IF s # <<>> /\ s[Len(s)] \in Whitespace
    THEN rstrip(SubSeq(s, 1, Len(s) - 1)) ELSE s
strip(s) == rstrip(lstrip(s))

-----------------------------------------------------------------------------
(* board.py                                                                *)

\* Cell(letter=None, is_blank=False)
Cell(l, blank) == [letter |-> l, is_blank |-> blank]
EmptyCell == Cell(None, FALSE)

\* (mutant) __str__ ignores is_blank
CellStrIgnoringBlank(c) == IF c.letter = None THEN DOT ELSE upper(c.letter)

\* Cell.__str__
CellStr(c) ==
    IF c.letter = None THEN DOT
    ELSE IF c.is_blank THEN lower(c.letter) ELSE upper(c.letter)

\* ScrabbleBoard(): the default grid
NewBoard == [r \in Idx |-> [c \in Idx |-> EmptyCell]]

\* ScrabbleBoard.set
BoardSet(b, r, c, l, blank) ==
    [b EXCEPT ![r][c] = Cell(IF l # None THEN upper(l) ELSE None, blank)]

\* The cell from_strings stores for one character
CellOfChar(ch) ==
    IF ch = DOT THEN EmptyCell ELSE Cell(upper(ch), islower(ch))

\* What a call that builds a board ends with: the board, or the exception
Returned(g) == [raised |-> "", grid |-> g]
Raised(e) == [raised |-> e, grid |-> <<>>]

\* ScrabbleBoard.from_strings: ValueError on wrong dimensions
from_strings(rs) ==
    IF Len(rs) # BOARD_SIZE THEN Raised("ValueError")
    ELSE IF \E i \in 1 .. Len(rs) : Len(rs[i]) # BOARD_SIZE THEN Raised("ValueError")
    ELSE Returned([r \in Idx |-> [c \in Idx |-> CellOfChar(rs[r + 1][c + 1])]])

\* ScrabbleBoard.to_strings
to_strings(b) == [r \in 1 .. BOARD_SIZE |-> [c \in 1 .. BOARD_SIZE |-> CellStr(b[r - 1][c - 1])]]

-----------------------------------------------------------------------------
(* board_analyzer.py: cell segmentation                                    *)

\* Python's floor division of non-negative integers
FloorDiv(a, b) == a \div b

\* (mutant) the bounds take in one more row and column
CellBoundsInclusive(r, c, cell_height, cell_width) ==
    [y1 |-> r * cell_height, y2 |-> (r + 1) * cell_height + 1,
     x1 |-> c * cell_width,  x2 |-> (c + 1) * cell_width + 1]

\* lines 266-269: the untrimmed bounds of cell (r, c)
CellBounds(r, c, cell_height, cell_width) ==
    [y1 |-> r * cell_height, y2 |-> (r + 1) * cell_height,
     x1 |-> c * cell_width,  x2 |-> (c + 1) * cell_width]

\* line 272
Margin(cell_height, cell_width) ==
    Max(2, FloorDiv(Min(cell_height, cell_width), 10))

\* lines 272-276: the margin trim, each assignment reading the one before it
TrimBounds(b, margin) ==
    LET y1 == Min(b.y1 + margin, b.y2 - 1)
        y2 == Max(b.y2 - margin, y1 + 1)
        x1 == Min(b.x1 + margin, b.x2 - 1)
        x2 == Max(b.x2 - margin, x1 + 1)
    IN  [y1 |-> y1, y2 |-> y2, x1 |-> x1, x2 |-> x2]

\* numpy's a[lo:hi] on an axis of length n: the half-open index range it
\* selects, after negative indices wrap and out-of-range ones clamp
SliceIndex(i, n) == IF i < 0 THEN Max(i + n, 0) ELSE Min(i, n)
SliceRange(lo, hi, n) ==
    LET a == SliceIndex(lo, n)
        b == SliceIndex(hi, n)
    IN  [lo |-> a, hi |-> Max(a, b)]

\* line 278: board_image[y1:y2, x1:x2] as the pixel rectangle it selects
SliceOf(shape, t) ==
    LET ys == SliceRange(t.y1, t.y2, shape.height)
        xs == SliceRange(t.x1, t.x2, shape.width)
    IN  [y1 |-> ys.lo, y2 |-> ys.hi, x1 |-> xs.lo, x2 |-> xs.hi]

\* _extract_cells: for every cell its bounds before the trim (nominal), after
\* it (bounds), and the slice taken with them
extract_cells(shape) ==
    LET cell_height == FloorDiv(shape.height, BOARD_SIZE)
        cell_width  == FloorDiv(shape.width, BOARD_SIZE)
    IN  [r \in Idx |-> [c \in Idx |->
            LET u == CellBounds(r, c, cell_height, cell_width)
                t == TrimBounds(u, Margin(cell_height, cell_width))
            IN  [nominal |-> u, bounds |-> t, slice |-> SliceOf(shape, t)]]]

\* number of pixels of a slice
SliceSize(s) == (s.y2 - s.y1) * (s.x2 - s.x1)

-----------------------------------------------------------------------------
(* board_analyzer.py: the emptiness test.  A cell's grayscale is a         *)
(* sequence of intensities 0..255; cv2.cvtColor raises on an empty array.  *)

RECURSIVE SumSeq(_)
SumSeq(s) == IF s = <<>> THEN 0 ELSE Head(s) + SumSeq(Tail(s))

\* np.var(gray) < 100, with var = E[x^2] - E[x]^2 cleared of its denominators
VarianceBelow(gray, limit) ==
    LET n  == Len(gray)
        s1 == SumSeq(gray)
        s2 == SumSeq([i \in 1 .. n |-> gray[i] * gray[i]])
    IN  n * s2 - s1 * s1 < limit * n * n

\* np.max(hist): the most populous of the 256 bins
HistPeak(gray) ==
    LET count(v) == Cardinality({i \in 1 .. Len(gray) : gray[i] = v})
    IN  CHOOSE m \in 0 .. Len(gray) :
            /\ \A v \in 0 .. 255 : count(v) <= m
            /\ \E v \in 0 .. 255 : count(v) = m

\* (mutant) a peak of exactly half the pixels counts as dominant
is_cell_empty_peak_inclusive(gray) ==
    IF gray = <<>> THEN "cv2.error"
    ELSE IF VarianceBelow(gray, 100) THEN "True"
    ELSE IF 2 * HistPeak(gray) >= Len(gray) THEN "True"
    ELSE "False"

\* _is_cell_empty: "True", "False", or the exception cv2.cvtColor raises
is_cell_empty(gray) ==
    IF gray = <<>> THEN "cv2.error"
    ELSE IF VarianceBelow(gray, 100) THEN "True"
    ELSE IF 2 * HistPeak(gray) > Len(gray) THEN "True"
    ELSE "False"

-----------------------------------------------------------------------------
(* board_analyzer.py: recognition of one cell from the oracle's candidates *)

\* AnalyzerConfig.ocr_confidence_threshold = 0.5
ocr_confidence_threshold == 50

\* (mutant) the confidence must exceed the threshold
AcceptsAboveThreshold(cand) ==
    /\ cand.confidence > ocr_confidence_threshold
    /\ cand.text # <<>>
    /\ LET l == upper_str(strip(cand.text))
       IN  Len(l) = 1 /\ isalpha(l[1])

\* lines 314-316: does the loop return on this candidate?
Accepts(cand) ==
    /\ cand.confidence >= ocr_confidence_threshold
    /\ cand.text # <<>>
    /\ LET l == upper_str(strip(cand.text))
       IN  Len(l) = 1 /\ isalpha(l[1])

\* lines 309-323: the loop over the candidates, in the order given
RECURSIVE FirstAccepted(_)
FirstAccepted(res) ==
    IF res = <<>> THEN None
    ELSE IF Accepts(Head(res)) THEN upper_str(strip(Head(res).text))[1]
    ELSE FirstAccepted(Tail(res))

\* _recognize_cell after the oracle has answered
recognize_results(res) == IF res = <<>> THEN None ELSE FirstAccepted(res)

-----------------------------------------------------------------------------
(* board_analyzer.py: region detection and rectification.  A point is      *)
(* <<x, y>>; a contour is [area, approx], approx being the vertices that   *)
(* cv2.approxPolyDP leaves.                                                *)

\* np.argsort(keys): every index order that sorts the keys.  numpy's default
\* sort kind is not stable, so equal keys may come out in either order.
argsort(keys) ==
    LET n == Len(keys)
    IN  {p \in Permutations(1 .. n) :
            \A i \in 1 .. n - 1 : keys[p[i]] <= keys[p[i + 1]]}

\* a[p]: numpy indexing by an index array
Take(a, p) == [i \in 1 .. Len(p) |-> a[p[i]]]

\* (mutant) the bottom pair is left in the order the sort by y gave it
order_corners_bottom_unsorted(cs) ==
    LET ys == [i \in 1 .. Len(cs) |-> cs[i][2]]
    IN  UNION {
          LET sorted_by_y   == Take(cs, py)
              top_points    == SubSeq(sorted_by_y, 1, 2)
              bottom_points == SubSeq(sorted_by_y, 3, Len(cs))
          IN  {LET top == Take(top_points, pt)
               IN  <<top[1], top[2], bottom_points[2], bottom_points[1]>> :
                   pt \in argsort([i \in 1 .. 2 |-> top_points[i][1]])}
          : py \in argsort(ys)}

\* _order_corners: the outputs it can produce for these corners
order_corners(cs) ==
    LET ys == [i \in 1 .. Len(cs) |-> cs[i][2]]
    IN  UNION {
          LET sorted_by_y   == Take(cs, py)
              top_points    == SubSeq(sorted_by_y, 1, 2)
              bottom_points == SubSeq(sorted_by_y, 3, Len(cs))
          IN  {LET top    == Take(top_points, pt)
                   bottom == Take(bottom_points, pb)
               IN  <<top[1], top[2], bottom[2], bottom[1]>> :
                   pt \in argsort([i \in 1 .. 2 |-> top_points[i][1]]),
                   pb \in argsort([i \in 1 .. 2 |-> bottom_points[i][1]])}
          : py \in argsort(ys)}

\* int(sqrt(n)): the largest k with k * k <= n
ISqrt(n) == CHOOSE k \in 0 .. n : k * k <= n /\ (k + 1) * (k + 1) > n

\* squared Euclidean distance of two points
Dist2(p, q) == (p[1] - q[1]) * (p[1] - q[1]) + (p[2] - q[2]) * (p[2] - q[2])

\* lines 209-214: the side of the output square for ordered corners
TargetSize(o) ==
    ISqrt(Max(Max(Dist2(o[2], o[1]), Dist2(o[3], o[4])),
              Max(Dist2(o[4], o[1]), Dist2(o[3], o[2]))))

\* _perspective_transform: the shapes the warped image can have
perspective_transform(cs) ==
    {[height |-> TargetSize(o), width |-> TargetSize(o), rectified |-> TRUE] :
        o \in order_corners(cs)}

\* (mutant) a contour of exactly a tenth of the image is skipped
IsCandidateAboveTenth(contour, image_area) ==
    /\ contour.area * 10 > image_area
    /\ Len(contour.approx) = 4

\* lines 172-183: does the contour become a candidate?  area < image_area *
\* 0.1 is taken over the integers: contour areas are multiples of 0.5, and
\* the float product is exact whenever the tenth is one.
IsCandidate(contour, image_area) ==
    /\ ~(contour.area * 10 < image_area)
    /\ Len(contour.approx) = 4

\* _find_board_contour: the first candidate of greatest area (list.sort is
\* stable), or None (modelled by the empty sequence)
find_board_contour(contours, shape) ==
    LET image_area == shape.height * shape.width
        cand == {i \in 1 .. Len(contours) : IsCandidate(contours[i], image_area)}
    IN  IF cand = {} THEN <<>>
        ELSE LET best == CHOOSE i \in cand :
                    /\ \A j \in cand : contours[j].area <= contours[i].area
                    /\ \A j \in cand : contours[j].area = contours[i].area => i <= j
             IN  contours[best].approx

\* _detect_board_region: the shapes of the board region it can return
detect_board_region(img) ==
    LET whole == [height |-> img.height, width |-> img.width, rectified |-> FALSE]
    IN  IF img.contours = <<>> THEN {whole}
        ELSE LET board_contour == find_board_contour(img.contours, whole)
             IN  IF board_contour = <<>> THEN {whole}
                 ELSE perspective_transform(board_contour)

-----------------------------------------------------------------------------
(* The files analyze is called on.  A file is [exists, decodes, height,    *)
(* width, contours, tiles]: contours is what cv2.findContours finds in the *)
(* edge map, tiles gives, for the grid positions that do not show the      *)
(* plain background, the grayscale of the cell and what the oracle answers *)
(* for it.                                                                 *)

MaxAnalyzers == 2     \* BoardAnalyzer instances per run
MaxCalls == 2         \* analyze calls per run

Cand(text, confidence) == [text |-> text, confidence |-> confidence]
Tile(gray, res) == [gray |-> gray, results |-> res]

Solid == <<200, 200, 200, 200>>       \* plain background
Glyph == <<0, 255, 0, 255>>           \* a tile face with a letter
Premium == <<30, 255, 255, 255>>      \* a coloured square without a tile

Quad(x, y, side) ==
    [area |-> side * side,
     approx |-> <<<<x, y>>, <<x + side, y + side>>, <<x + side, y>>, <<x, y + side>>>>]
Pentagon(side) ==
    [area |-> side * side,
     approx |-> <<<<0, 0>>, <<side, 0>>, <<side + 1, 1>>, <<side, side>>, <<0, side>>>>]

File(h, w, contours, tiles) ==
    [exists |-> TRUE, decodes |-> TRUE, height |-> h, width |-> w,
     contours |-> contours, tiles |-> tiles]
Missing == [File(1, 1, <<>>, <<>>) EXCEPT !.exists = FALSE, !.decodes = FALSE]
Corrupt == [File(1, 1, <<>>, <<>>) EXCEPT !.decodes = FALSE]

TileQ == Tile(Glyph, <<Cand(<<81>>, 90)>>)
TileAB == Tile(Glyph, <<Cand(<<65>>, 30), Cand(<<98, 32>>, 90)>>)
TileMulti == Tile(Glyph, <<Cand(<<65, 66>>, 99)>>)
TileNone == Tile(Glyph, <<>>)

Files ==
    { Missing, Corrupt,
      File(45, 45, <<>>, <<>>),
      File(45, 45, <<>>, <<7, 7>> :> TileQ),
      File(47, 31, <<>>, (<<0, 0>> :> TileAB) @@ (<<14, 14>> :> TileMulti)),
      File(10, 45, <<>>, <<>>),
      File(45, 14, <<>>, <<7, 7>> :> TileQ),
      File(45, 45, <<>>, <<2, 11>> :> TileAB),
      File(60, 60, <<Quad(10, 10, 30)>>, <<7, 7>> :> TileQ),
      File(20, 20, <<Quad(5, 5, 10)>>, <<>>),
      File(45, 45, <<Quad(0, 0, 5), Pentagon(40)>>,
           (<<3, 4>> :> Tile(Premium, <<>>)) @@ (<<7, 7>> :> TileNone)),
      File(1, 1, <<>>, <<>>) }

\* cv2.cvtColor(cell_image): the grayscale of the cell at (r, c); a slice
\* that selects no pixel has none
CellGray(img, r, c, slice) ==
    IF SliceSize(slice) = 0 THEN <<>>
    ELSE IF <<r, c>> \in DOMAIN img.tiles THEN img.tiles[<<r, c>>].gray
    ELSE Solid

-----------------------------------------------------------------------------
(* The process: constructing analyzers and running analyze, one statement  *)
(* group per step.                                                         *)

NoShape == [height |-> 0, width |-> 0, rectified |-> FALSE]
NoFile == Missing

pureIdle ==
    /\ rows = <<>> /\ parsed = Raised("") /\ printed = <<>> /\ reparsed = Raised("")
    /\ corners = <<>> /\ ordered = <<>>
    /\ results = <<>> /\ letter = None
    /\ cell_image = <<>> /\ is_empty = ""

procIdle ==
    /\ analyzers = {} /\ ocr_reader = [a \in 1 .. MaxAnalyzers |-> None]
    /\ engines = 0 /\ calls = 0 /\ self = 0 /\ image = NoFile
    /\ row = 0 /\ col = 0 /\ board = NewBoard /\ classified = 0
    /\ steps = {} /\ outcome = "none"

Init ==
    /\ pc = "idle"
    /\ procIdle
    /\ board_image = NoShape /\ cells = <<>>
    /\ pureIdle

pureVars == <<boardVars, cornerVars, recogVars, emptyVars>>

\* The locals of a call as analyze is entered
Enter(a, img) ==
    /\ pc' = "exists"
    /\ calls' = calls + 1
    /\ self' = a
    /\ image' = img
    /\ board_image' = NoShape /\ cells' = <<>>
    /\ row' = 0 /\ col' = 0 /\ board' = NewBoard /\ classified' = 0
    /\ steps' = {} /\ outcome' = "running"

\* BoardAnalyzer.__init__: a new instance, its _ocr_reader None
NewAnalyzer ==
    /\ pc = "idle"
    /\ \E a \in (1 .. MaxAnalyzers) \ analyzers :
        /\ analyzers' = analyzers \cup {a}
        /\ ocr_reader' = [ocr_reader EXCEPT ![a] = None]
    /\ UNCHANGED <<pc, engines, calls, self, image, row, col, board, classified,
                   steps, outcome, segVars, pureVars>>

\* analyzer.analyze(image_path) is called on an existing instance
Analyze ==
    /\ pc = "idle" /\ calls < MaxCalls
    /\ \E a \in analyzers, img \in Files : Enter(a, img)
    /\ UNCHANGED <<analyzers, ocr_reader, engines, pureVars>>

\* analyze_board(image_path): a fresh instance, then analyze on it
analyze_board ==
    /\ pc = "idle" /\ calls < MaxCalls
    /\ \E a \in (1 .. MaxAnalyzers) \ analyzers, img \in Files :
        /\ analyzers' = analyzers \cup {a}
        /\ ocr_reader' = [ocr_reader EXCEPT ![a] = None]
        /\ Enter(a, img)
    /\ UNCHANGED <<engines, pureVars>>

\* an exception leaves analyze
Raise(e) == pc' = "idle" /\ outcome' = e

\* (mutant) the existence check is dropped
PathExistsUnchecked(img) == TRUE

\* line 95: image_path.exists()
PathExists(img) == img.exists

\* lines 94-96
CheckExists ==
    /\ pc = "exists"
    /\ IF PathExists(image) THEN pc' = "imread" /\ UNCHANGED outcome
       ELSE Raise("FileNotFoundError")
    /\ UNCHANGED <<analyzers, ocr_reader, engines, calls, self, image, row, col,
                   board, classified, steps, segVars, pureVars>>

\* lines 100-102
Imread ==
    /\ pc = "imread"
    /\ steps' = steps \cup {"imread"}
    /\ IF image.decodes THEN pc' = "detect" /\ UNCHANGED outcome
       ELSE Raise("ValueError")
    /\ UNCHANGED <<analyzers, ocr_reader, engines, calls, self, image, row, col,
                   board, classified, segVars, pureVars>>

\* line 105
DetectBoardRegion ==
    /\ pc = "detect"
    /\ steps' = steps \cup {"detect"}
    /\ board_image' \in detect_board_region(image)
    /\ pc' = "extract"
    /\ UNCHANGED <<analyzers, ocr_reader, engines, calls, self, image, row, col,
                   board, classified, outcome, cells, pureVars>>

\* lines 108-111
ExtractCells ==
    /\ pc = "extract"
    /\ steps' = steps \cup {"extract"}
    /\ cells' = extract_cells(board_image)
    /\ board' = NewBoard
    /\ row' = 0 /\ col' = 0
    /\ pc' = "recognize"
    /\ UNCHANGED <<analyzers, ocr_reader, engines, calls, self, image,
                   classified, outcome, board_image, pureVars>>

\* (mutant) the loops stop as the last row is entered
LoopDoneAtLastRow(r, c) == r = BOARD_SIZE - 1

\* the loop header of lines 112-113: on to the next cell, or out of the loops
LoopDone(r, c) == r = BOARD_SIZE - 1 /\ c = BOARD_SIZE - 1
NextCell ==
    /\ classified' = classified + 1
    /\ IF LoopDone(row, col) THEN pc' = "return" /\ UNCHANGED <<row, col>>
       ELSE /\ pc' = "recognize"
            /\ col' = IF col = BOARD_SIZE - 1 THEN 0 ELSE col + 1
            /\ row' = IF col = BOARD_SIZE - 1 THEN row + 1 ELSE row


\* (mutant) the property constructs a Reader on every access
NeedsEngineAlways(a) == TRUE

\* line 77: does the ocr_reader property construct the engine?
NeedsEngine(a) == ocr_reader[a] = None

\* (mutant) the handle is stored on the class, so every instance sees it
LoadEngineOnClass(a) ==
    IF ocr_reader[a] = None
    THEN /\ ocr_reader' = [b \in 1 .. MaxAnalyzers |-> engines + 1]
         /\ engines' = engines + 1
    ELSE UNCHANGED <<ocr_reader, engines>>

\* lines 77-81, when easyocr.Reader(...) returns: the handle is stored
LoadEngine(a) ==
    IF NeedsEngine(a)
    THEN /\ ocr_reader' = [ocr_reader EXCEPT ![a] = engines + 1]
         /\ engines' = engines + 1
    ELSE UNCHANGED <<ocr_reader, engines>>

\* (mutant) the letter is stored at (col, row)
StoreLetterTransposed(l) ==
    board' = IF l # None THEN BoardSet(board, col, row, l, FALSE) ELSE board

\* lines 116-117: board.set(row, col, letter) when a letter was recognised
StoreLetter(l) ==
    board' = IF l # None THEN BoardSet(board, row, col, l, FALSE) ELSE board

\* lines 114-117: one pass of the loop body, _recognize_cell included.  The
\* two calls into easyocr (constructing the Reader, readtext) either return
\* or raise.
RecognizeCell ==
    /\ pc = "recognize"
    /\ steps' = steps \cup {"classify"}
    /\ LET gray  == CellGray(image, row, col, cells[row][col].slice)
           empty == is_cell_empty(gray)
       IN  \/ /\ empty = "cv2.error"
              /\ Raise("cv2.error")
              /\ UNCHANGED <<ocr_reader, engines, board, row, col, classified>>
           \/ /\ empty = "True"
              /\ NextCell
              /\ UNCHANGED <<ocr_reader, engines, board, outcome>>
           \/ /\ empty = "False"
              /\ NeedsEngine(self)
              /\ Raise("EngineError")
              /\ UNCHANGED <<ocr_reader, engines, board, row, col, classified>>
           \/ /\ empty = "False"
              /\ LoadEngine(self)
              /\ Raise("OracleError")
              /\ UNCHANGED <<board, row, col, classified>>
           \/ /\ empty = "False"
              /\ LoadEngine(self)
              /\ StoreLetter(recognize_results(image.tiles[<<row, col>>].results))
              /\ NextCell
              /\ UNCHANGED outcome
    /\ UNCHANGED <<analyzers, calls, self, image, segVars, pureVars>>

\* lines 119-123
Return ==
    /\ pc = "return"
    /\ pc' = "idle"
    /\ outcome' = "board"
    /\ UNCHANGED <<analyzers, ocr_reader, engines, calls, self, image, row, col,
                   board, classified, steps, segVars, pureVars>>

Next ==
    \/ NewAnalyzer
    \/ Analyze
    \/ analyze_board
    \/ CheckExists
    \/ Imread
    \/ DetectBoardRegion
    \/ ExtractCells
    \/ RecognizeCell
    \/ Return

Spec == Init /\ [][Next]_vars

-----------------------------------------------------------------------------
(* _extract_cells on its own, over every shape up to MaxDim x MaxDim.      *)

MaxDim == 31

InitSeg ==
    /\ pc = "segment"
    /\ procIdle /\ pureIdle
    /\ cells = <<>>
    /\ \E dh, dw \in 0 .. MaxDim - 1 :
        board_image = [height |-> MaxDim - dh, width |-> MaxDim - dw,
                       rectified |-> FALSE]

Segment ==
    /\ pc = "segment"
    /\ cells' = extract_cells(board_image)
    /\ pc' = "segmented"
    /\ UNCHANGED <<procVars, board_image, pureVars>>

NextSeg == Segment

SpecSeg == InitSeg /\ [][NextSeg]_vars

-----------------------------------------------------------------------------
(* from_strings and to_strings on their own.  The rows repeat a pattern of *)
(* PatLen characters, shifted by one from row to row; two malformed inputs *)
(* exercise the dimension checks.                                          *)

PatLen == 3
BoardChars == {DOT, 65, 81, 90, 97, 113, 122}

PatternRows(pat) ==
    [r \in 1 .. BOARD_SIZE |-> [c \in 1 .. BOARD_SIZE |->
        pat[(((r - 1) * (BOARD_SIZE + 1) + (c - 1)) % Len(pat)) + 1]]]

RowInputs ==
    {PatternRows(pat) : pat \in [1 .. PatLen -> BoardChars]}
    \cup {SubSeq(PatternRows(<<DOT>>), 1, BOARD_SIZE - 1),
          [PatternRows(<<DOT>>) EXCEPT ![2] = Append(@, 65)]}

InitBoard ==
    /\ pc = "parse"
    /\ procIdle
    /\ board_image = NoShape /\ cells = <<>>
    /\ rows \in RowInputs
    /\ parsed = Raised("") /\ printed = <<>> /\ reparsed = Raised("")
    /\ corners = <<>> /\ ordered = <<>>
    /\ results = <<>> /\ letter = None
    /\ cell_image = <<>> /\ is_empty = ""

FromStrings ==
    /\ pc = "parse"
    /\ parsed' = from_strings(rows)
    /\ pc' = IF parsed'.raised = "" THEN "print" ELSE "done"
    /\ UNCHANGED <<procVars, segVars, emptyVars, rows, printed, reparsed, cornerVars, recogVars>>

ToStrings ==
    /\ pc = "print"
    /\ printed' = to_strings(parsed.grid)
    /\ pc' = "reparse"
    /\ UNCHANGED <<procVars, segVars, emptyVars, rows, parsed, reparsed, cornerVars, recogVars>>

Reparse ==
    /\ pc = "reparse"
    /\ reparsed' = from_strings(printed)
    /\ pc' = "done"
    /\ UNCHANGED <<procVars, segVars, emptyVars, rows, parsed, printed, cornerVars, recogVars>>

NextBoard == FromStrings \/ ToStrings \/ Reparse

SpecBoard == InitBoard /\ [][NextBoard]_vars

-----------------------------------------------------------------------------
(* _order_corners on its own, over every sequence of 4 distinct points of  *)
(* the grid 0..MaxCoord x 0..MaxCoord.                                     *)

MaxCoord == 2
Points == (0 .. MaxCoord) \X (0 .. MaxCoord)

InitCorners ==
    /\ pc = "order"
    /\ procIdle
    /\ board_image = NoShape /\ cells = <<>>
    /\ rows = <<>> /\ parsed = Raised("") /\ printed = <<>> /\ reparsed = Raised("")
    /\ corners \in {cs \in [1 .. 4 -> Points] : \A i, j \in 1 .. 4 : i # j => cs[i] # cs[j]}
    /\ ordered = <<>>
    /\ results = <<>> /\ letter = None
    /\ cell_image = <<>> /\ is_empty = ""

OrderCorners ==
    /\ pc = "order"
    /\ ordered' \in order_corners(corners)
    /\ pc' = "ordered"
    /\ UNCHANGED <<procVars, segVars, emptyVars, boardVars, corners, recogVars>>

NextCorners == OrderCorners

SpecCorners == InitCorners /\ [][NextCorners]_vars

-----------------------------------------------------------------------------
(* _recognize_cell on the answers of a stubbed oracle: every list of at    *)
(* most MaxCands candidates over CandTexts x CandConfs.                    *)

MaxCands == 2
\* "A", "B", "AB", " b\n", "", " ", "1"
CandTexts == {<<65>>, <<66>>, <<65, 66>>, <<32, 98, 10>>, <<>>, <<32>>, <<49>>}
CandConfs == {30, 50, 90, 99}
Candidates == {Cand(t, cf) : t \in CandTexts, cf \in CandConfs}

InitRecognize ==
    /\ pc = "ocr"
    /\ procIdle
    /\ board_image = NoShape /\ cells = <<>>
    /\ rows = <<>> /\ parsed = Raised("") /\ printed = <<>> /\ reparsed = Raised("")
    /\ corners = <<>> /\ ordered = <<>>
    /\ results \in UNION {[1 .. n -> Candidates] : n \in 0 .. MaxCands}
    /\ letter = None
    /\ cell_image = <<>> /\ is_empty = ""

Recognize ==
    /\ pc = "ocr"
    /\ letter' = recognize_results(results)
    /\ pc' = "recognized"
    /\ UNCHANGED <<procVars, segVars, emptyVars, boardVars, cornerVars, results>>

NextRecognize == Recognize

SpecRecognize == InitRecognize /\ [][NextRecognize]_vars

-----------------------------------------------------------------------------
(* Claims about analyze (checked under Spec)                               *)

Ended == pc = "idle" /\ outcome # "none"
OracleFailures == {"EngineError", "OracleError"}
IsGrid15(b) ==
    /\ DOMAIN b = Idx
    /\ \A r \in Idx : DOMAIN b[r] = Idx

\* C1: every call on a file that exists and decodes (any height and width
\* >= 1, a quadrilateral detected or not) returns a board, of 15 rows of 15
\* cells, unless a call into the recognition engine itself raised.
C1_DecodedImageYieldsBoard ==
    (Ended /\ image.exists /\ image.decodes /\ outcome \notin OracleFailures)
        => (outcome = "board" /\ IsGrid15(board))

\* C2: a call on a path that does not exist ends with FileNotFoundError in
\* its first step: nothing was decoded, detected, segmented or classified,
\* and no instance, handle or engine changes.
C2_MissingPathFailsFirst ==
    [][/\ (pc = "exists" /\ ~image.exists) =>
            /\ pc' = "idle" /\ outcome' = "FileNotFoundError"
            /\ steps = {} /\ steps' = {}
            /\ classified' = 0
            /\ board' = NewBoard /\ cells' = <<>>
            /\ UNCHANGED <<analyzers, ocr_reader, engines>>
       /\ (pc = "idle" /\ pc' = "exists") =>
            /\ \A a \in analyzers : ocr_reader'[a] = ocr_reader[a]
            /\ engines' = engines
       /\ (outcome' = "FileNotFoundError") => ~image'.exists
      ]_vars

\* C2 witness: the second call of an instance that already holds an engine
\* was made on a missing path and has failed.
C2_Witness ==
    /\ Ended /\ outcome = "FileNotFoundError"
    /\ calls = 2 /\ ocr_reader[self] # None
    /\ steps = {} /\ classified = 0

\* C3 as claimed: a call that ends with an error has classified no cell.
C3_ErrorsOnlyBeforeClassification ==
    (Ended /\ outcome # "board") => classified = 0

\* C3 as amended: a board is returned only after all 225 cells were
\* classified; a missing path, a failed decode and cv2's error on a cell
\* slice without pixels end the call with no cell classified; a failure of
\* the engine's construction or of an oracle call ends it at a non-empty
\* cell, every cell before that one in row-major order having been
\* classified.
C3_NoPartialBoard ==
    Ended =>
        /\ outcome \in {"board", "FileNotFoundError", "ValueError", "cv2.error"}
                       \cup OracleFailures
        /\ outcome = "board" =>
              classified = BOARD_SIZE * BOARD_SIZE /\ IsGrid15(board)
        /\ outcome \in {"FileNotFoundError", "ValueError", "cv2.error"} =>
              classified = 0
        /\ outcome \in OracleFailures =>
              /\ classified = row * BOARD_SIZE + col
              /\ <<row, col>> \in DOMAIN image.tiles
              /\ is_cell_empty(image.tiles[<<row, col>>].gray) = "False"

\* C3 witness: the engine could not be constructed at cell (7, 7), after the
\* 112 cells before it were classified.
C3_Witness ==
    /\ Ended /\ outcome = "EngineError"
    /\ row = 7 /\ col = 7 /\ classified = 112

\* what _recognize_cell returns for the cell at (r, c) of the image of the
\* running call: None for an empty cell, else the oracle's accepted letter
Recognition(r, c) ==
    IF is_cell_empty(CellGray(image, r, c, cells[r][c].slice)) # "False" THEN None
    ELSE recognize_results(image.tiles[<<r, c>>].results)

\* the cells of b that hold a letter
Populated(b) == {rc \in Idx \X Idx : b[rc[1]][rc[2]].letter # None}

\* C12: analyze classifies the 225 cells once each in row-major order (the
\* cell at hand is the one whose row-major index is the number of cells
\* classified so far, and the board is returned after 225); every cell
\* already classified holds the recognised letter with is_blank = False, or
\* is empty if nothing was recognised; the cells not yet classified are
\* empty; no cell is ever a blank tile.
C12_BoardFromClassifications ==
    (pc \in {"recognize", "return"} \/ (pc = "idle" /\ outcome = "board")) =>
        /\ IsGrid15(board)
        /\ pc = "recognize" => classified = row * BOARD_SIZE + col
        /\ pc # "recognize" => classified = BOARD_SIZE * BOARD_SIZE
        /\ \A r, c \in Idx :
            /\ board[r][c].is_blank = FALSE
            /\ r * BOARD_SIZE + c < classified =>
                  board[r][c] = (IF Recognition(r, c) # None
                                 THEN Cell(Recognition(r, c), FALSE) ELSE EmptyCell)
            /\ r * BOARD_SIZE + c >= classified => board[r][c] = EmptyCell

\* C12 witness: the image shows the one tile "b " off the diagonal, at
\* (2, 11); the returned board holds B at (2, 11) and nothing else.
C12_Witness ==
    /\ pc = "idle" /\ outcome = "board"
    /\ DOMAIN image.tiles = {<<2, 11>>}
    /\ board[2][11] = Cell(66, FALSE)
    /\ Populated(board) = {<<2, 11>>}

-----------------------------------------------------------------------------
(* Claims about the board serialization (checked under SpecBoard)          *)

WellFormed(rs) ==
    /\ Len(rs) = 15
    /\ \A i \in 1 .. Len(rs) :
        /\ Len(rs[i]) = 15
        /\ \A j \in 1 .. Len(rs[i]) : rs[i][j] \in {DOT} \cup UpperLetters \cup LowerLetters

\* C4: for well-formed rows, to_strings(from_strings(rows)) = rows, and
\* parsing the printed rows again gives the same board, cell by cell (same
\* letter, same is_blank).
C4_RoundTrip ==
    (pc = "done" /\ WellFormed(rows)) =>
        /\ parsed.raised = ""
        /\ printed = rows
        /\ reparsed.raised = ""
        /\ \A r, c \in Idx :
            /\ reparsed.grid[r][c].letter = parsed.grid[r][c].letter
            /\ reparsed.grid[r][c].is_blank = parsed.grid[r][c].is_blank
            /\ parsed.grid[r][c].letter = (IF rows[r + 1][c + 1] = DOT THEN None
                                           ELSE upper(rows[r + 1][c + 1]))
            /\ parsed.grid[r][c].is_blank = (rows[r + 1][c + 1] \in LowerLetters)

\* C4 witness: a round trip of rows that hold an empty square, a normal
\* tile and a blank tile.
C4_Witness ==
    /\ pc = "done" /\ WellFormed(rows)
    /\ \E c \in 1 .. 15 : rows[1][c] = DOT
    /\ \E c \in 1 .. 15 : rows[1][c] \in UpperLetters
    /\ \E c \in 1 .. 15 : rows[1][c] \in LowerLetters

-----------------------------------------------------------------------------
(* Claims about _order_corners (checked under SpecCorners)                 *)

\* every reordering of the input gives this one output
SameForEveryOrder(cs, out) ==
    \A p \in Permutations(1 .. 4) : order_corners(Take(cs, p)) = {out}

TopBottomUnambiguous(cs) ==
    \E T \in SUBSET (1 .. 4) :
        /\ Cardinality(T) = 2
        /\ \A i \in T, j \in (1 .. 4) \ T : cs[i][2] < cs[j][2]
        /\ \A i, j \in T : i # j => cs[i][1] # cs[j][1]
        /\ \A i, j \in (1 .. 4) \ T : i # j => cs[i][1] # cs[j][1]

-----------------------------------------------------------------------------
(* Claims about _extract_cells (checked under SpecSeg)                     *)

\* the half-open rectangle b holds pixel (y, x)
Holds(b, y, x) == b.y1 <= y /\ y < b.y2 /\ b.x1 <= x /\ x < b.x2

\* the grid positions whose untrimmed bounds hold pixel (y, x)
CellsHolding(y, x) ==
    {rc \in Idx \X Idx : Holds(cells[rc[1]][rc[2]].nominal, y, x)}

Is15x15(cs) ==
    /\ DOMAIN cs = Idx
    /\ \A r \in Idx : DOMAIN cs[r] = Idx

\* C6 as claimed: 225 cells, and every pixel of the image lies in the
\* untrimmed bounds of exactly one of them, for every height and width.
C6_UntrimmedCellsTileImage ==
    pc = "segmented" =>
        /\ Is15x15(cells)
        /\ \A y \in 0 .. board_image.height - 1, x \in 0 .. board_image.width - 1 :
            Cardinality(CellsHolding(y, x)) = 1

\* C6 as amended: 225 cells whose untrimmed bounds never overlap and tile
\* the top-left 15*cellH by 15*cellW pixels, cell (y \div cellH, x \div cellW)
\* holding pixel (y, x); the H % 15 bottom rows and W % 15 right columns lie
\* in no cell, so the image is tiled exactly when 15 divides both H and W.
C6_UntrimmedCellsTileMultipleOf15 ==
    pc = "segmented" =>
        LET cell_height == board_image.height \div BOARD_SIZE
            cell_width  == board_image.width \div BOARD_SIZE
        IN  /\ Is15x15(cells)
            /\ \A y \in 0 .. board_image.height - 1, x \in 0 .. board_image.width - 1 :
                CellsHolding(y, x) =
                    IF y < BOARD_SIZE * cell_height /\ x < BOARD_SIZE * cell_width
                    THEN {<<y \div cell_height, x \div cell_width>>}
                    ELSE {}

\* C6 witness: an image of height 31 and width 16, cut into cells of 2 x 1
\* pixels that leave its last row and its last column uncovered
C6_Witness ==
    /\ pc = "segmented"
    /\ board_image.height = 31 /\ board_image.width = 16
    /\ cells[14][14].nominal = [y1 |-> 28, y2 |-> 30, x1 |-> 14, x2 |-> 15]
    /\ CellsHolding(30, 0) = {} /\ CellsHolding(0, 15) = {}

\* C7: the trim only shrinks a cell and never collapses it: the trimmed
\* bounds lie within the untrimmed ones and are at least 1 pixel high and
\* wide, the slice taken with them is that rectangle of the image, and no
\* pixel lies in the trimmed cells of two grid positions.
C7_TrimShrinksNeverCollapses ==
    pc = "segmented" =>
        /\ \A r, c \in Idx :
            LET u == cells[r][c].nominal
                t == cells[r][c].bounds
            IN  /\ u.y1 <= t.y1 /\ t.y1 < t.y2 /\ t.y2 <= u.y2
                /\ u.x1 <= t.x1 /\ t.x1 < t.x2 /\ t.x2 <= u.x2
                /\ cells[r][c].slice = t
                /\ SliceSize(cells[r][c].slice) >= 1
        /\ \A y \in 0 .. board_image.height - 1, x \in 0 .. board_image.width - 1 :
            Cardinality({rc \in Idx \X Idx :
                            Holds(cells[rc[1]][rc[2]].slice, y, x)}) <= 1

-----------------------------------------------------------------------------
(* Claims about _recognize_cell (checked under SpecRecognize)              *)

\* the trimmed, uppercased text of a candidate
Normalized(cand) == upper_str(strip(cand.text))

\* the two conditions of the claim
Qualifies(cand) ==
    /\ cand.confidence >= 50
    /\ Len(Normalized(cand)) = 1
    /\ Normalized(cand)[1] \in UpperLetters \cup LowerLetters

-----------------------------------------------------------------------------
(* Claims about the recognition-engine handle (checked under Spec)         *)

\* the cell the loop is at is judged non-empty
AtNonEmptyCell ==
    /\ pc = "recognize"
    /\ is_cell_empty(CellGray(image, row, col, cells[row][col].slice)) = "False"

\* C9: an instance has no handle when constructed; its handle is constructed
\* in the step in which its first non-empty cell reaches the oracle, and in
\* no other (not for a cell judged empty, so a call whose cells are all
\* empty constructs nothing); once it holds a handle it keeps that one over
\* all later recognitions and calls.
C9_HandleLazyAndKept ==
    [][\A a \in 1 .. MaxAnalyzers :
        /\ (a \in analyzers' \ analyzers) => ocr_reader'[a] = None
        /\ (ocr_reader[a] # None) => ocr_reader'[a] = ocr_reader[a]
        /\ (ocr_reader'[a] # ocr_reader[a]) =>
              /\ AtNonEmptyCell /\ self = a /\ a \in analyzers
              /\ engines' = engines + 1 /\ ocr_reader'[a] = engines'
        /\ (AtNonEmptyCell /\ self = a /\ outcome' # "EngineError") =>
              ocr_reader'[a] # None
        /\ (engines' # engines) => ocr_reader'[self] # ocr_reader[self]
      ]_vars

\* C9 witness: the second call on the one instance has classified all 225
\* cells of an image with tiles at (0, 0) and (14, 14), both sent to the
\* oracle, and the process has constructed one engine.
C9_Witness ==
    /\ pc = "return" /\ calls = 2 /\ analyzers = {1}
    /\ DOMAIN image.tiles = {<<0, 0>>, <<14, 14>>}
    /\ board[0][0].letter = 66
    /\ engines = 1 /\ ocr_reader[1] = 1

\* C10 as claimed: the process constructs at most one engine, whichever
\* instances the calls go through.
C10_OneEnginePerProcess ==
    engines <= 1

\* C10 as amended: the handle belongs to the instance.  Each instance
\* constructs at most one engine, two instances never hold the same one,
\* and the process has constructed as many engines as it has instances that
\* hold one; analyze_board makes a new instance for every call.
C10_OneEnginePerInstance ==
    /\ engines = Cardinality({a \in analyzers : ocr_reader[a] # None})
    /\ \A a \in analyzers : ocr_reader[a] \in 0 .. engines
    /\ \A a \in (1 .. MaxAnalyzers) \ analyzers : ocr_reader[a] = None
    /\ \A a, b \in analyzers :
        (a # b /\ ocr_reader[a] # None) => ocr_reader[a] # ocr_reader[b]

\* C10 witness: two calls through two instances, each of which constructed
\* an engine of its own.
C10_Witness ==
    /\ Ended /\ calls = 2
    /\ analyzers = {1, 2}
    /\ ocr_reader[1] # None /\ ocr_reader[2] # None
    /\ ocr_reader[1] # ocr_reader[2]
    /\ engines = 2

-----------------------------------------------------------------------------
(* _is_cell_empty on its own, over every cell image of 1 to MaxPixels      *)
(* pixels with intensities from GrayLevels.                                *)

MaxPixels == 4
GrayLevels == {0, 100, 110, 120}

InitEmpty ==
    /\ pc = "empty?"
    /\ procIdle
    /\ board_image = NoShape /\ cells = <<>>
    /\ rows = <<>> /\ parsed = Raised("") /\ printed = <<>> /\ reparsed = Raised("")
    /\ corners = <<>> /\ ordered = <<>>
    /\ results = <<>> /\ letter = None
    /\ cell_image \in UNION {[1 .. n -> GrayLevels] : n \in 1 .. MaxPixels}
    /\ is_empty = ""

IsCellEmpty ==
    /\ pc = "empty?"
    /\ is_empty' = is_cell_empty(cell_image)
    /\ pc' = "classified"
    /\ UNCHANGED <<procVars, segVars, boardVars, cornerVars, recogVars, cell_image>>

NextEmpty == IsCellEmpty

SpecEmpty == InitEmpty /\ [][NextEmpty]_vars

\* the variance of the intensities, as the mean of the squared deviations
\* from the mean, is below limit (both sides multiplied by n^3)
DeviationsBelow(g, limit) ==
    LET n == Len(g)
        S == SumSeq(g)
        dev2 == [i \in 1 .. n |-> (n * g[i] - S) * (n * g[i] - S)]
    IN  SumSeq(dev2) < limit * n * n * n

\* some intensity is that of more than half of the pixels
DominantBin(g) ==
    \E v \in 0 .. 255 : 2 * Cardinality({i \in 1 .. Len(g) : g[i] = v}) > Len(g)

\* C11: a cell image (of at least one pixel) is classified empty if and only
\* if the variance of its intensities is below 100 or one of the 256 bins
\* holds more than half of the pixels (exactly half does not count); so a
\* solid cell is empty, and a cell of variance >= 100 with no bin above half
\* is non-empty.
C11_EmptyIffFlatOrDominated ==
    pc = "classified" =>
        /\ is_empty \in {"True", "False"}
        /\ is_empty = "True" <=>
              (DeviationsBelow(cell_image, 100) \/ DominantBin(cell_image))
        /\ (\A i \in 1 .. Len(cell_image) : cell_image[i] = cell_image[1]) =>
              is_empty = "True"
        /\ (~DeviationsBelow(cell_image, 100) /\ ~DominantBin(cell_image)) =>
              is_empty = "False"

\* C11 witness: half of the pixels are 100 and half 120: the variance is
\* exactly 100 and the peak exactly 50%, and the cell is non-empty.
C11_Witness ==
    /\ pc = "classified"
    /\ cell_image = <<100, 120, 120, 100>>
    /\ is_empty = "False"

-----------------------------------------------------------------------------
(* _detect_board_region on its own, over images of two sizes with up to    *)
(* MaxContours contours each.  corners is the contour handed to            *)
(* _perspective_transform (the empty sequence when it is not called).      *)

MaxContours == 3

\* of a 9 x 10 image, the contours cover 4/90, exactly 9/90, 25/90 (two of
\* them, at different places) and 36/90 (with five vertices)
ContourKinds ==
    {Quad(0, 0, 2), Quad(1, 1, 3), Quad(0, 0, 5), Quad(2, 3, 5), Pentagon(6)}

DetectImages ==
    {File(hw[1], hw[2], cs, <<>>) :
        hw \in {<<9, 10>>, <<10, 10>>},
        cs \in UNION {[1 .. n -> ContourKinds] : n \in 0 .. MaxContours}}

InitDetect ==
    /\ pc = "detect"
    /\ analyzers = {} /\ ocr_reader = [a \in 1 .. MaxAnalyzers |-> None]
    /\ engines = 0 /\ calls = 0 /\ self = 0
    /\ image \in DetectImages
    /\ row = 0 /\ col = 0 /\ board = NewBoard /\ classified = 0
    /\ steps = {} /\ outcome = "none"
    /\ board_image = NoShape /\ cells = <<>>
    /\ pureIdle

Detect ==
    /\ pc = "detect"
    /\ LET whole == [height |-> image.height, width |-> image.width, rectified |-> FALSE]
           board_contour == IF image.contours = <<>> THEN <<>>
                            ELSE find_board_contour(image.contours, whole)
       IN  /\ corners' = board_contour
           /\ board_image' \in detect_board_region(image)
    /\ pc' = "detected"
    /\ UNCHANGED <<procVars, cells, boardVars, ordered, recogVars, emptyVars>>

NextDetect == Detect

SpecDetect == InitDetect /\ [][NextDetect]_vars

\* the contours of the image that cover at least a tenth of it and whose
\* approximation has four vertices
Qualifying(img) ==
    {i \in 1 .. Len(img.contours) :
        /\ 10 * img.contours[i].area >= img.height * img.width
        /\ Len(img.contours[i].approx) = 4}

=============================================================================
